---- MODULE Spec2Model ----
(***************************************************************************)
(* Model of the PowerView SmartHub session (powerview.py), of the entity    *)
(* command handlers that drive it (cover.py, button.py) and of the setup    *)
(* wizard (setup.py) with the device registry it writes (config.py).        *)
(*                                                                         *)
(* Every coroutine is a task.  A task runs atomically between two          *)
(* suspension points (asyncio is cooperative); the suspension points are   *)
(* the awaits on the transport (firmware probe, shade/scene listing,       *)
(* move/open/close/stop/activate) and the wait for radio_operation_lock.   *)
(***************************************************************************)
EXTENDS Integers, Sequences, FiniteSets

\* ------------------------------------------------------------------ bounds
\* Coroutines started on the session, and how many of them may be connect().
MaxTasks == 3
MaxConnects == 1

Tasks == 1..MaxTasks

\* Ids of the shades and scenes the hub can list.
CoverIds == {1}
SceneIds == {1}
\* Ids callers pass to the commands: the listed ones and one that is on no
\* hub.
CallerCoverIds == {1, 2}
CallerSceneIds == {1, 2}

\* Shade positions the hub reports: both sides of the toggle test (0) and
\* of the OPEN/CLOSED threshold (4, 5).
HubPositions == {0, 4, 5}
\* Explicit targets passed to open_cover(position=...).
TargetPositions == {5, 101}

\* Python's None as the value of an optional integer.
NonePosition == -1
\* An attribute key that is not present in an UPDATE payload.
AbsentPosition == -2
\* Position of a fully open / fully closed shade.
FullyOpen == 100
FullyClosed == 0

CoverOps == {"open", "open_pos", "close", "stop", "toggle"}
CommandOps == CoverOps \cup {"activate"}

VARIABLES
    hub,        \* self._powerview_smart_hub is not None
    covers,     \* self._covers: sequence of [id, position, raw]
    scenes,     \* self._scenes: sequence of scene ids
    lock,       \* radio_operation_lock: 0 when free, else the holding task
    waiters,    \* tasks suspended in radio_operation_lock.acquire(), FIFO
    task,       \* per task: the coroutine it runs and where it is
    emitted,    \* per task: the events it has emitted, in order
    raw_covers, \* self._raw_covers: the last shade listing of the transport
    raw_scenes, \* self._raw_scenes: the last scene listing of the transport
    setup_step,     \* setup._setup_step
    cfg_add_device, \* setup._cfg_add_device
    devices,        \* config.devices._config: the registry, a sequence
    request,        \* the setup message the wizard handled last
    response,       \* the setup action it returned for it
    conv,           \* the conversation that message came from, and the step
                    \* in which each conversation's last message left the wizard
    registry_call,  \* the config.Devices method called last from outside setup
    handler_calls,  \* the add/remove handler invocations the last setup
                    \* message or registry call made, in order
    fleet,          \* driver._configured_devices: per live session its
                    \* handle, cache, lock, connect() and command progress
    running,        \* per driver event handler: the device it is awaiting
    unresponsive,   \* sessions whose hub has stopped answering
    configured_devices, \* the keys of driver._configured_devices, in the
                    \* order of the dict
    listening,      \* the live sessions whose events still have the
                    \* driver's listeners
    entities,       \* api.available_entities and api.configured_entities
    subscriber      \* on_subscribe_entities: where the running call is, and
                    \* what it has done

sessionVars ==
    <<hub, covers, scenes, lock, waiters, task, emitted, raw_covers,
      raw_scenes>>

setupVars ==
    <<setup_step, cfg_add_device, devices, request, response, conv,
      registry_call, handler_calls>>

fleetVars ==
    <<fleet, running, unresponsive, configured_devices, listening, entities,
      subscriber>>

vars == <<sessionVars, setupVars, fleetVars>>

\* ------------------------------------------------------------- helpers
RECURSIVE InjSeqs(_, _)
\* All sequences without repetition over S of length at most n.
InjSeqs(S, n) ==
    IF n = 0 THEN {<<>>}
    ELSE LET shorter == InjSeqs(S, n - 1)
         IN shorter \cup
            UNION {{Append(s, x) : x \in S \ {s[i] : i \in 1..Len(s)}} :
                   s \in {q \in shorter : Len(q) = n - 1}}

\* What Shades.get_instances() can return: any inventory of shades, in any
\* order, each with any reported position.
ShadeListingsOver(ids, positions) ==
    UNION {{[i \in 1..Len(s) |-> [id |-> s[i], pos |-> f[i]]] :
            f \in [1..Len(s) -> positions]} :
           s \in InjSeqs(ids, Cardinality(ids))}

ShadeListings == ShadeListingsOver(CoverIds, HubPositions)

\* What Scenes.get_instances() can return.
SceneListingsOver(ids) == InjSeqs(ids, Cardinality(ids))

SceneListings == SceneListingsOver(SceneIds)

Ev(kind, id, state, position) ==
    [kind |-> kind, id |-> id, state |-> state, position |-> position]

IdleTask ==
    [pc |-> "idle", op |-> "", arg |-> 0, pos |-> NonePosition,
     cur |-> NonePosition, step |-> 0, ncalls |-> 0,
     call |-> "none", outcome |-> "", ret |-> "", status |-> ""]

\* ------------------------------------------------------ SmartHub, pure parts
\* is_connected property.
is_connected == hub

\* The connection state a caller can observe on the session.
connectionState == IF is_connected THEN "CONNECTED" ELSE "DISCONNECTED"

\* A lookup that ignores the id and takes the first cached cover.
FindCover_first(list, id) == IF list # <<>> THEN 1 ELSE 0

\* next((c for c in self._covers if c.id == cover_id), None): index of the
\* first match, 0 for None.
FindCover(list, id) ==
    IF \E i \in 1..Len(list) : list[i].id = id
    THEN CHOOSE i \in 1..Len(list) :
            /\ list[i].id = id
            /\ \A j \in 1..(i - 1) : list[j].id # id
    ELSE 0

\* next((s for s in self._scenes if s.id == scene_id), None)
FindScene(list, id) ==
    IF \E i \in 1..Len(list) : list[i] = id
    THEN CHOOSE i \in 1..Len(list) :
            /\ list[i] = id
            /\ \A j \in 1..(i - 1) : list[j] # id
    ELSE 0

\* Lookup made by a command: covers for cover commands, scenes for scenes.
FindTarget(op, id) ==
    IF op = "activate" THEN FindScene(scenes, id) ELSE FindCover(covers, id)

\* stop_cover calling the transport without taking the lock.
UsesLock_notStop(op) == op \in CommandOps \ {"stop"}

\* Every command wraps its transport call in
\* "async with self.radio_operation_lock".
UsesLock(op) == op \in CommandOps

\* The threshold taken strictly.
RefreshState_strict(p) == IF p > 5 THEN "OPEN" ELSE "CLOSED"

\* State label computed by _update_covers.
RefreshState(p) == IF p >= 5 THEN "OPEN" ELSE "CLOSED"

\* State label computed by toggle_cover from the position read before the call.
ToggleState(cur) == IF cur >= 5 THEN "OPEN" ELSE "CLOSED"

\* Position published by toggle_cover.
TogglePosition(cur) == IF cur = 0 THEN FullyOpen ELSE FullyClosed

\* toggle_cover deciding on the OPEN/CLOSED threshold instead of on 0.
ToggleCall_threshold(cur) == IF cur < 5 THEN "open" ELSE "close"

\* Transport call chosen by toggle_cover.
ToggleCall(cur) == IF cur = 0 THEN "open" ELSE "close"

\* The transport call a command issues.
TransportCall(op, cur) ==
    CASE op = "open" -> "open"
      [] op = "open_pos" -> "move"
      [] op = "close" -> "close"
      [] op = "stop" -> "stop"
      [] op = "toggle" -> ToggleCall(cur)
      [] op = "activate" -> "activate"

\* The UPDATE emitted whatever the transport call did (emit in a finally).
CommandEvents_always(op, id, pos, cur, outcome) ==
    CASE op = "open" -> <<Ev("UPDATE", id, "OPEN", pos)>>
      [] op = "open_pos" -> <<>>
      [] op = "close" -> <<Ev("UPDATE", id, "CLOSED", 0)>>
      [] op = "stop" -> <<Ev("UPDATE", id, "STOPPED", AbsentPosition)>>
      [] op = "toggle" ->
           <<Ev("UPDATE", id, IF cur >= 5 THEN "OPEN" ELSE "CLOSED",
                IF cur = 0 THEN FullyOpen ELSE FullyClosed)>>
      [] op = "activate" -> <<>>

\* The events a command emits once its transport call has returned.
CommandEvents(op, id, pos, cur, outcome) ==
    IF outcome # "ok" THEN <<>>
    ELSE CASE op = "open" -> <<Ev("UPDATE", id, "OPEN", pos)>>
           [] op = "open_pos" -> <<>>
           [] op = "close" -> <<Ev("UPDATE", id, "CLOSED", 0)>>
           [] op = "stop" -> <<Ev("UPDATE", id, "STOPPED", AbsentPosition)>>
           [] op = "toggle" ->
                <<Ev("UPDATE", id, ToggleState(cur), TogglePosition(cur))>>
           [] op = "activate" -> <<>>

\* UPDATE events emitted by _update_covers for the refreshed cache.
RefreshEvents(list) ==
    [i \in 1..Len(list) |->
        Ev("UPDATE", list[i].id, RefreshState(list[i].raw), list[i].raw)]

\* One shade of a listing as a PowerviewCoverInfo.
CoverInfo(shade) ==
    [id |-> shade.id, position |-> shade.pos, raw |-> shade.pos]

\* A refresh that keeps the cached covers the listing no longer has.
WrapCovers_merge(listing) ==
    LET listed == {listing[i].id : i \in 1..Len(listing)}
    IN [i \in 1..Len(listing) |-> CoverInfo(listing[i])]
       \o SelectSeq(covers, LAMBDA c : c.id \notin listed)

\* get_covers wraps every shade of the listing in a PowerviewCoverInfo.
WrapCovers(listing) ==
    [i \in 1..Len(listing) |-> CoverInfo(listing[i])]

\* get_scenes wraps every scene of the listing in a PowerviewSceneInfo; a
\* cached scene is modelled by its id.
WrapScenes(listing) == [i \in 1..Len(listing) |-> listing[i]]

\* Entity handlers: BAD_REQUEST only when the device call raised.
HandlerStatus(op, raised) ==
    IF op \in {"open", "open_pos", "close", "stop", "activate"}
    THEN IF raised THEN "BAD_REQUEST" ELSE "OK"
    ELSE ""

\* Initial attributes of a PowerviewCover entity built from a cached cover.
CoverInitAttributes(c) ==
    Ev("INIT", c.id, IF c.raw >= 5 THEN "OPEN" ELSE "CLOSED",
       IF c.raw = 0 THEN FullyOpen ELSE FullyClosed)

\* connect() refreshing the covers before it runs the base class's connect.
ConnectSteps_refreshFirst ==
    <<"update_covers", "super_connect", "update_scenes">>

\* The awaits of connect(), in order.
ConnectSteps == <<"super_connect", "update_covers", "update_scenes">>

\* ------------------------------------------------------- setup messages
\* A key that is not in msg.input_values.
Absent == "<absent>"

\* A hub that answers query_firmware(): serial number, name and model.
NoHub == [serial |-> "", name |-> "", model |-> ""]
Hubs ==
    {[serial |-> "ABC123", name |-> "Hub1", model |-> "X"],
     [serial |-> "42", name |-> "Hub2", model |-> "Y"]}

\* The setup message the wizard handles: its kind, the reconfigure flag of a
\* DriverSetupRequest, the input values of a UserDataResponse, and what the
\* collaborators did while it was handled (addresses the scan found, how far
\* the transport calls got, the hub that answered).
Request(kind, reconfigure, action, choice, ip, found, outcome, answering) ==
    [kind |-> kind, reconfigure |-> reconfigure, action |-> action,
     choice |-> choice, ip |-> ip, found |-> found, outcome |-> outcome,
     hub |-> answering]

NoRequest ==
    Request("none", FALSE, Absent, Absent, Absent, <<>>, "none", NoHub)

\* The setup action returned: RequestUserInput (which form, with the ids of
\* its device or address dropdown and of its action dropdown), SetupComplete,
\* SetupError (with its error type), or an exception that left the handler.
Response(type, form, items, actions, code) ==
    [type |-> type, form |-> form, items |-> items, actions |-> actions,
     code |-> code]

NoResponse == Response("none", "none", <<>>, <<>>, "none")

RequestUserInput(form, items, actions) ==
    Response("RequestUserInput", form, items, actions, "none")

SetupComplete == Response("SetupComplete", "none", <<>>, <<>>, "none")

SetupError(code) == Response("SetupError", "none", <<>>, <<>>, code)

Raised(exception) == Response("raised", "none", <<>>, <<>>, exception)

\* Setup conversations (clients driving the wizard); 0 for none yet.
Conversations == {1, 2}
NoConversation == [last |-> 0, left |-> [c \in Conversations |-> "INIT"]]

\* A call of a config.Devices method: its name, the record or identifier
\* passed, the exception it raised ("" for none) and what its store()
\* returned ("" when it did not get to store()).
RegistryCall(method, cfg, raised, stored) ==
    [method |-> method, config |-> cfg, raised |-> raised, stored |-> stored]

NoConfig == [identifier |-> "", address |-> "", name |-> "", model |-> ""]
NoRegistryCall == RegistryCall("none", NoConfig, "", "")

\* An invocation of the registry's add handler (on_device_added) or remove
\* handler (on_device_removed; identifier "" for None, the whole registry).
HandlerCall(kind, identifier) == [kind |-> kind, identifier |-> identifier]

\* _user_input_manual: the free-text address form.
user_input_manual == RequestUserInput("manual", <<>>, <<>>)

\* ---------------------------------------------------------------- Init
\* SmartHub.__init__: the hub handle is built, the caches are empty, the
\* lock is free; no coroutine has been started.
SessionInit ==
    /\ hub = TRUE
    /\ covers = <<>>
    /\ scenes = <<>>
    /\ raw_covers = <<>>
    /\ raw_scenes = <<>>
    /\ lock = 0
    /\ waiters = <<>>
    /\ task = [t \in Tasks |-> IdleTask]
    /\ emitted = [t \in Tasks |-> <<>>]

\* setup.py at import: step INIT, no device being added, no message handled
\* yet; a registry with no record.
SetupIdle ==
    /\ setup_step = "INIT"
    /\ cfg_add_device = FALSE
    /\ devices = <<>>
    /\ request = NoRequest
    /\ response = NoResponse
    /\ conv = NoConversation
    /\ registry_call = NoRegistryCall
    /\ handler_calls = <<>>

\* The identifiers a live session can have: the serial numbers of the hubs.
FleetIds == {h.serial : h \in Hubs}

\* The ids of the entities _register_available_entities_from_hub builds for
\* the hub d, which lists two shades: "cover.<device>.<shade>".
HubEntities(d) == {<<"cover", d, "1">>, <<"cover", d, "2">>}

\* on_subscribe_entities with no call running.
SubscriberIdle ==
    [pc |-> "idle", device |-> "", attempt |-> 0, attempts |-> 0,
     failed |-> 0, disconnects |-> 0]

\* The driver's handlers that walk over the live sessions.
FleetHandlers == {"connect", "disconnect", "standby"}

\* A session as SmartHub.__init__ leaves it: handle built, cache empty,
\* radio_operation_lock free, no connect() and no command running.
FleetSession ==
    [hub |-> TRUE, cached |-> FALSE, lock |-> FALSE, step |-> 0,
     command |-> "idle"]

\* A session whose connect() has returned with the listing of the hub.
ServedSession == [FleetSession EXCEPT !.cached = TRUE]

\* The driver with no handler running: a live session with its listeners
\* for every record of the registry, each connected once, its entities
\* registered from its cache and subscribed.
FleetIdle ==
    /\ fleet = [s \in FleetIds |->
                  IF \E i \in 1..Len(devices) : devices[i].identifier = s
                  THEN ServedSession ELSE FleetSession]
    /\ running = [h \in FleetHandlers |-> 0]
    /\ unresponsive = {}
    /\ configured_devices = [i \in 1..Len(devices) |-> devices[i].identifier]
    /\ listening = {devices[i].identifier : i \in 1..Len(devices)}
    /\ entities =
           [available |->
                UNION {HubEntities(devices[i].identifier) :
                          i \in 1..Len(devices)},
            configured |->
                UNION {HubEntities(devices[i].identifier) :
                          i \in 1..Len(devices)}]
    /\ subscriber = SubscriberIdle

Init == SessionInit /\ SetupIdle /\ FleetIdle

\* Task slots are taken in order: slot t is the t-th coroutine started.
CanStart(t) ==
    /\ task[t].pc = "idle"
    /\ IF t = 1 THEN TRUE ELSE task[t - 1].pc # "idle"

\* A coroutine that has returned: its frame is gone; that it was a connect()
\* still counts against MaxConnects.
FinishedTask(tk) ==
    [IdleTask EXCEPT !.pc = "finished",
                     !.op = IF tk.op = "connect" THEN "connect" ELSE ""]

\* The task records after task t moved to record r.  The record of a
\* coroutine that returned is kept for the one state that follows its
\* return, where its result is inspected, and is dropped at the next step.
Step(t, r) ==
    [u \in Tasks |->
        IF u = t THEN r
        ELSE IF task[u].pc = "done" THEN FinishedTask(task[u]) ELSE task[u]]

\* The events of the running coroutines after task t's events became es.
StepEvents(t, es) ==
    [u \in Tasks |->
        IF u = t THEN es
        ELSE IF task[u].pc = "done" THEN <<>> ELSE emitted[u]]

\* A refresh whose listing failed dropping what it had cached.
FailedListingCache_cleared(cache) == <<>>

\* The cache after a listing that raised: get_covers / get_scenes assign
\* only after get_instances() returned, so the cache is what it was.
FailedListingCache(cache) == cache

\* ------------------------------------------------------------- connect
\* StatelessHTTPDevice.connect announces the attempt before it probes.
StepEntryEvents(s) ==
    IF s = "super_connect" THEN <<Ev("CONNECTING", 0, "", AbsentPosition)>>
    ELSE <<>>

\* StatelessHTTPDevice.connect reports CONNECTED when verify_connection()
\* came back without raising, and nothing more otherwise.
SuperConnectEvents(verifyRaised) ==
    IF verifyRaised THEN <<>>
    ELSE <<Ev("CONNECTED", 0, "", AbsentPosition)>>

\* verify_connection catches CancelledError and Exception around
\* query_firmware(), so no outcome of the probe leaves it as an exception.
VerifyRaises(outcome) == FALSE

\* The connect coroutine moves on to its i-th await, or returns True.
ConnectAdvance(tk, i) ==
    IF i > Len(ConnectSteps)
    THEN [tk EXCEPT !.pc = "done", !.step = 0, !.ret = "True"]
    ELSE [tk EXCEPT !.pc = "await", !.step = i]

ConnectEntryEvents(i) ==
    IF i > Len(ConnectSteps) THEN <<>> ELSE StepEntryEvents(ConnectSteps[i])

\* connect() probing with whatever handle it finds.
ConnectHandle_noRebuild(h) == h

\* The handle connect() probes with: rebuild_request() builds a new one when
\* the handle is None.
ConnectHandle(h) == IF h = FALSE THEN TRUE ELSE h

\* connect(): rebuild the handle when it was dropped, then run to the first
\* await.  At most MaxConnects coroutines are connect().
Connect(t) ==
    /\ CanStart(t)
    /\ Cardinality({u \in Tasks : task[u].op = "connect"}) < MaxConnects
    /\ hub' = ConnectHandle(hub)
    /\ task' = Step(t, ConnectAdvance([IdleTask EXCEPT !.op = "connect"], 1))
    /\ emitted' = StepEvents(t, ConnectEntryEvents(1))
    /\ UNCHANGED <<covers, scenes, raw_covers, raw_scenes, lock, waiters>>
    /\ UNCHANGED <<setupVars, fleetVars>>

\* query_firmware() returns, raises or is cancelled; connect() goes on.
ProbeReturn(t) ==
    /\ task[t].pc = "await"
    /\ ConnectSteps[task[t].step] = "super_connect"
    /\ \E o \in {"ok", "raise", "cancel"} :
        /\ task' = Step(t, ConnectAdvance([task[t] EXCEPT !.outcome = o],
                                          task[t].step + 1))
        /\ emitted' = StepEvents(t,
                         emitted[t] \o SuperConnectEvents(VerifyRaises(o))
                                    \o ConnectEntryEvents(task[t].step + 1))
    /\ UNCHANGED <<hub, covers, scenes, raw_covers, raw_scenes, lock, waiters>>
    /\ UNCHANGED <<setupVars, fleetVars>>

\* _update_covers: the shade listing returns (cache replaced, one UPDATE per
\* cover), raises (logged) or is cancelled (CancelledError leaves connect()).
CoversReturnFrom(t, listings) ==
    /\ task[t].pc = "await"
    /\ ConnectSteps[task[t].step] = "update_covers"
    /\ \/ \E listing \in listings :
            /\ raw_covers' = listing
            /\ covers' = WrapCovers(listing)
            /\ task' = Step(t, ConnectAdvance([task[t] EXCEPT !.outcome = "ok"],
                                              task[t].step + 1))
            /\ emitted' = StepEvents(t,
                             emitted[t] \o RefreshEvents(WrapCovers(listing))
                                        \o ConnectEntryEvents(task[t].step + 1))
       \/ /\ task' = Step(t, ConnectAdvance([task[t] EXCEPT !.outcome = "raise"],
                                            task[t].step + 1))
          /\ emitted' = StepEvents(t,
                           emitted[t] \o ConnectEntryEvents(task[t].step + 1))
          /\ covers' = FailedListingCache(covers)
          /\ UNCHANGED raw_covers
       \/ /\ task' = Step(t, [task[t] EXCEPT !.pc = "done", !.ret = "raised",
                                             !.outcome = "cancel"])
          /\ emitted' = StepEvents(t, emitted[t])
          /\ UNCHANGED <<covers, raw_covers>>
    /\ UNCHANGED <<hub, scenes, raw_scenes, lock, waiters>>
    /\ UNCHANGED <<setupVars, fleetVars>>

CoversReturn(t) == CoversReturnFrom(t, ShadeListings)

\* _update_scenes: the scene listing returns, raises or is cancelled.
ScenesReturnFrom(t, listings) ==
    /\ task[t].pc = "await"
    /\ ConnectSteps[task[t].step] = "update_scenes"
    /\ \/ \E listing \in listings :
            /\ raw_scenes' = listing
            /\ scenes' = WrapScenes(listing)
            /\ task' = Step(t, ConnectAdvance([task[t] EXCEPT !.outcome = "ok"],
                                              task[t].step + 1))
            /\ emitted' = StepEvents(t,
                             emitted[t] \o ConnectEntryEvents(task[t].step + 1))
       \/ /\ task' = Step(t, ConnectAdvance([task[t] EXCEPT !.outcome = "raise"],
                                            task[t].step + 1))
          /\ emitted' = StepEvents(t,
                           emitted[t] \o ConnectEntryEvents(task[t].step + 1))
          /\ scenes' = FailedListingCache(scenes)
          /\ UNCHANGED raw_scenes
       \/ /\ task' = Step(t, [task[t] EXCEPT !.pc = "done", !.ret = "raised",
                                             !.outcome = "cancel"])
          /\ emitted' = StepEvents(t, emitted[t])
          /\ UNCHANGED <<scenes, raw_scenes>>
    /\ UNCHANGED <<hub, covers, raw_covers, lock, waiters>>
    /\ UNCHANGED <<setupVars, fleetVars>>

ScenesReturn(t) == ScenesReturnFrom(t, SceneListings)

\* StatelessHTTPDevice.disconnect announces DISCONNECTED.
SuperDisconnectEvents == <<Ev("DISCONNECTED", 0, "", AbsentPosition)>>

\* disconnect(): drop the handle, then run the base class's disconnect.
Disconnect(t) ==
    /\ CanStart(t)
    /\ hub' = FALSE
    /\ task' = Step(t, [IdleTask EXCEPT !.op = "disconnect", !.pc = "done",
                                        !.ret = "None"])
    /\ emitted' = StepEvents(t, SuperDisconnectEvents)
    /\ UNCHANGED <<covers, scenes, raw_covers, raw_scenes, lock, waiters>>
    /\ UNCHANGED <<setupVars, fleetVars>>

\* ------------------------------------------------------------ commands
\* The task issues its transport call.
IssueCall(tk) ==
    [tk EXCEPT !.pc = "call", !.ncalls = @ + 1,
               !.call = TransportCall(tk.op, tk.cur)]

\* open_cover / close_cover / stop_cover / toggle_cover / activate_scene up
\* to the first suspension: look the target up, return on a miss, else take
\* the lock (or queue for it) and issue the transport call.
Command(t, op, id, p) ==
    /\ CanStart(t)
    /\ LET idx == FindTarget(op, id)
           started == [IdleTask EXCEPT
                         !.op = op, !.arg = id, !.pos = p,
                         !.cur = IF op = "toggle" /\ idx # 0
                                 THEN covers[idx].raw ELSE NonePosition]
       IN IF idx = 0
          THEN /\ task' = Step(t, [started EXCEPT
                                     !.pc = "done", !.ret = "None",
                                     !.status = HandlerStatus(op, FALSE)])
               /\ UNCHANGED <<lock, waiters>>
          ELSE IF ~UsesLock(op)
          THEN /\ task' = Step(t, IssueCall(started))
               /\ UNCHANGED <<lock, waiters>>
          ELSE IF lock = 0 /\ waiters = <<>>
          THEN /\ lock' = t
               /\ task' = Step(t, IssueCall(started))
               /\ UNCHANGED waiters
          ELSE /\ waiters' = Append(waiters, t)
               /\ task' = Step(t, [started EXCEPT !.pc = "waitlock"])
               /\ UNCHANGED lock
    /\ emitted' = StepEvents(t, <<>>)
    /\ UNCHANGED <<hub, covers, scenes, raw_covers, raw_scenes>>
    /\ UNCHANGED <<setupVars, fleetVars>>

\* The lock was released and this task is first in line: it takes the lock
\* and issues its transport call.
LockWake(t) ==
    /\ task[t].pc = "waitlock"
    /\ lock = 0
    /\ waiters # <<>>
    /\ Head(waiters) = t
    /\ lock' = t
    /\ waiters' = Tail(waiters)
    /\ task' = Step(t, IssueCall(task[t]))
    /\ emitted' = StepEvents(t, emitted[t])
    /\ UNCHANGED <<hub, covers, scenes, raw_covers, raw_scenes>>
    /\ UNCHANGED <<setupVars, fleetVars>>

\* A lock that stays held when the transport call raised.
LockAfterCall_heldOnRaise(l, t, o) == IF l = t /\ o = "ok" THEN 0 ELSE l

\* "async with self.radio_operation_lock" releases the lock its task holds
\* when the block is left, by return or by exception.
LockAfterCall(l, t, o) == IF l = t THEN 0 ELSE l

\* The transport call returns or raises: the lock is released, the UPDATE
\* event of the command is emitted on success, the exception is logged.
\* Nothing here writes to the cached cover.
CallReturn(t) ==
    /\ task[t].pc = "call"
    /\ \E o \in {"ok", "raise"} :
        LET tk == task[t]
        IN /\ emitted' = StepEvents(t,
                 emitted[t] \o CommandEvents(tk.op, tk.arg, tk.pos, tk.cur, o))
           /\ task' = Step(t, [tk EXCEPT
                                 !.pc = "done", !.outcome = o, !.ret = "None",
                                 !.status = HandlerStatus(tk.op, FALSE)])
           /\ lock' = LockAfterCall(lock, t, o)
    /\ UNCHANGED <<hub, covers, scenes, raw_covers, raw_scenes, waiters>>
    /\ UNCHANGED <<setupVars, fleetVars>>

\* ---------------------------------------------------------- specification
Next ==
    \E t \in Tasks :
        \/ Connect(t)
        \/ ProbeReturn(t)
        \/ CoversReturn(t)
        \/ ScenesReturn(t)
        \/ Disconnect(t)
        \/ \E id \in CallerCoverIds :
              \/ \E op \in CoverOps \ {"open_pos"} :
                    Command(t, op, id, NonePosition)
              \/ \E p \in TargetPositions : Command(t, "open_pos", id, p)
        \/ \E id \in CallerSceneIds :
              Command(t, "activate", id, NonePosition)
        \/ LockWake(t)
        \/ CallReturn(t)

Spec == Init /\ [][Next]_vars

\* ------------------------------------------- refreshing a filled session
\* Ids of the shades and scenes the hub lists when a session that already
\* holds a cache is refreshed: two of each, so that order and removal show.
RefreshCoverIds == {1, 2}
RefreshSceneIds == {1, 2}
\* Positions those shades report: closed and open.
RefreshPositions == {0, 5}

RefreshShadeListings == ShadeListingsOver(RefreshCoverIds, RefreshPositions)

RefreshSceneListings == SceneListingsOver(RefreshSceneIds)

\* A session whose connect() has returned: the caches hold what the hub
\* listed then, no coroutine is running.
InitRefresh ==
    /\ hub = TRUE
    /\ raw_covers \in RefreshShadeListings
    /\ covers = [i \in 1..Len(raw_covers) |-> CoverInfo(raw_covers[i])]
    /\ raw_scenes \in RefreshSceneListings
    /\ scenes = WrapScenes(raw_scenes)
    /\ lock = 0
    /\ waiters = <<>>
    /\ task = [t \in Tasks |-> IdleTask]
    /\ emitted = [t \in Tasks |-> <<>>]
    /\ SetupIdle
    /\ FleetIdle

CoversRefresh(t) == CoversReturnFrom(t, RefreshShadeListings)

ScenesRefresh(t) == ScenesReturnFrom(t, RefreshSceneListings)

\* connect() and disconnect() on that session.
NextRefresh ==
    \E t \in Tasks :
        \/ Connect(t)
        \/ ProbeReturn(t)
        \/ CoversRefresh(t)
        \/ ScenesRefresh(t)
        \/ Disconnect(t)

SpecRefresh == InitRefresh /\ [][NextRefresh]_vars

\* ------------------------------------------------- the driver's sessions
\* device.connect() up to its first await: the handle is rebuilt when it
\* was dropped, and the first of ConnectSteps is awaited.
FleetConnectStart(f, s) ==
    [f EXCEPT ![s].hub = ConnectHandle(@), ![s].step = 1]

\* A handler that has gone through all devices has returned.
Returned == Len(configured_devices) + 1

\* on_r2_connect_cmd after the p-th device's connect() returned (p = 0: on
\* entry): "for device in _configured_devices.values(): await
\* device.connect()" calls connect() of the next device, if there is one.
ConnectAllNext(f, p) ==
    IF p + 1 > Len(configured_devices) THEN f
    ELSE FleetConnectStart(f, configured_devices[p + 1])

\* on_r2_connect_cmd is invoked.
FleetConnectAll ==
    /\ running["connect"] \in {0, Returned}
    /\ running' = [running EXCEPT !["connect"] = 1]
    /\ fleet' = ConnectAllNext(fleet, 0)
    /\ UNCHANGED unresponsive
    /\ UNCHANGED <<configured_devices, listening, entities, subscriber>>
    /\ UNCHANGED <<sessionVars, setupVars>>

\* The transport call a connect() of session s awaits returns or raises
\* (verify_connection and both refreshes catch the exception): connect()
\* goes on to its next await, or returns to the handler, which goes on to
\* the next device.
FleetConnectReturn(s) ==
    /\ fleet[s].step \in 1..Len(ConnectSteps)
    /\ s \notin unresponsive
    /\ \E o \in {"ok", "raise"} :
        LET cached == IF ConnectSteps[fleet[s].step] = "update_covers"
                      THEN o = "ok" \/ fleet[s].cached
                      ELSE fleet[s].cached
        IN IF fleet[s].step < Len(ConnectSteps)
           THEN /\ fleet' = [fleet EXCEPT ![s].step = @ + 1,
                                          ![s].cached = cached]
                /\ UNCHANGED running
           ELSE /\ fleet' = ConnectAllNext(
                                [fleet EXCEPT ![s].step = 0,
                                              ![s].cached = cached],
                                running["connect"])
                /\ running' = [running EXCEPT !["connect"] = @ + 1]
    /\ UNCHANGED unresponsive
    /\ UNCHANGED <<configured_devices, listening, entities, subscriber>>
    /\ UNCHANGED <<sessionVars, setupVars>>

\* on_r2_disconnect_cmd / on_r2_enter_standby after the p-th device's
\* disconnect() returned: disconnect() of the next device drops its handle.
DisconnectAllNext(f, p) ==
    IF p + 1 > Len(configured_devices) THEN f
    ELSE [f EXCEPT ![configured_devices[p + 1]].hub = FALSE]

\* on_r2_disconnect_cmd or on_r2_enter_standby is invoked.
FleetDisconnectAll(h) ==
    /\ running[h] \in {0, Returned}
    /\ running' = [running EXCEPT ![h] = 1]
    /\ fleet' = DisconnectAllNext(fleet, 0)
    /\ UNCHANGED unresponsive
    /\ UNCHANGED <<configured_devices, listening, entities, subscriber>>
    /\ UNCHANGED <<sessionVars, setupVars>>

\* The disconnect() a handler awaits returns; it makes no transport call.
FleetDisconnectReturn(h) ==
    /\ running[h] \in 1..Len(configured_devices)
    /\ running' = [running EXCEPT ![h] = @ + 1]
    /\ fleet' = DisconnectAllNext(fleet, running[h])
    /\ UNCHANGED unresponsive
    /\ UNCHANGED <<configured_devices, listening, entities, subscriber>>
    /\ UNCHANGED <<sessionVars, setupVars>>

\* A command on a cover or scene of session s: found in the cache, it
\* takes the session's radio_operation_lock and awaits its transport call.
FleetCommand(s) ==
    /\ fleet[s].command = "idle"
    /\ fleet[s].cached
    /\ ~fleet[s].lock
    /\ fleet' = [fleet EXCEPT ![s].lock = TRUE, ![s].command = "call"]
    /\ UNCHANGED <<running, unresponsive>>
    /\ UNCHANGED <<configured_devices, listening, entities, subscriber>>
    /\ UNCHANGED <<sessionVars, setupVars>>

\* The transport call of the command returns or raises: the lock of the
\* session is released.
FleetCallReturn(s) ==
    /\ fleet[s].command = "call"
    /\ s \notin unresponsive
    /\ fleet' = [fleet EXCEPT ![s].lock = FALSE, ![s].command = "idle"]
    /\ UNCHANGED <<running, unresponsive>>
    /\ UNCHANGED <<configured_devices, listening, entities, subscriber>>
    /\ UNCHANGED <<sessionVars, setupVars>>

\* The hub of session s stops answering: its transport calls no longer
\* return.  One hub at most does.
FleetFault(s) ==
    /\ unresponsive = {}
    /\ unresponsive' = {s}
    /\ UNCHANGED <<fleet, running>>
    /\ UNCHANGED <<configured_devices, listening, entities, subscriber>>
    /\ UNCHANGED <<sessionVars, setupVars>>

NextFleet ==
    \/ FleetConnectAll
    \/ \E h \in {"disconnect", "standby"} :
          \/ FleetDisconnectAll(h)
          \/ FleetDisconnectReturn(h)
    \/ \E s \in FleetIds :
          \/ FleetConnectReturn(s)
          \/ FleetCommand(s)
          \/ FleetCallReturn(s)
          \/ FleetFault(s)

\* The calls of a hub that answers return, and a disconnect() returns.
FleetFairness ==
    /\ \A h \in {"disconnect", "standby"} : WF_vars(FleetDisconnectReturn(h))
    /\ \A s \in FleetIds :
          /\ WF_vars(FleetConnectReturn(s))
          /\ WF_vars(FleetCallReturn(s))

\* ------------------------------------ the driver's registry handlers
\* on_device_removed(device) on the driver state d: the sessions, the keys
\* of _configured_devices, the sessions with listeners and the entity
\* collections.  With None (identifier ""): the listeners of
\* every live session are removed and _configured_devices and both entity
\* collections are cleared.  With a device whose identifier is in
\* _configured_devices: the session is popped and its listeners removed, and
\* "entity_id = device.identifier" is removed from both entity collections.
OnDeviceRemoved(d, id) ==
    IF id = ""
    THEN [d EXCEPT !.map = <<>>, !.listening = {},
                   !.entities = [available |-> {}, configured |-> {}]]
    ELSE IF \E i \in 1..Len(d.map) : d.map[i] = id
         THEN [d EXCEPT
                 !.map = SelectSeq(@, LAMBDA k : k # id),
                 !.listening = @ \ {id},
                 !.entities = [available |-> @.available \ {<<id>>},
                               configured |-> @.configured \ {<<id>>}]]
         ELSE d

\* on_device_added(device) schedules _add_configured_device(device), which
\* disconnects the live session of that identifier if there is one, builds a
\* SmartHub, and raises AttributeError on "powerview.EVENTS" before the
\* session is put into _configured_devices: nothing is registered.
OnDeviceAdded(d, id) ==
    IF \E i \in 1..Len(d.map) : d.map[i] = id
    THEN [d EXCEPT !.fleet[id].hub = FALSE]
    ELSE d

\* The driver state after the handler invocations hs, in order.
RECURSIVE ApplyHandlers(_, _)
ApplyHandlers(d, hs) ==
    IF hs = <<>> THEN d
    ELSE ApplyHandlers(
             IF Head(hs).kind = "removed"
             THEN OnDeviceRemoved(d, Head(hs).identifier)
             ELSE OnDeviceAdded(d, Head(hs).identifier),
             Tail(hs))

\* The registry handlers hs are invoked on the driver.
Driven(hs) ==
    LET d == ApplyHandlers(
                 [fleet |-> fleet, map |-> configured_devices,
                  listening |-> listening, entities |-> entities], hs)
    IN /\ fleet' = d.fleet
       /\ configured_devices' = d.map
       /\ listening' = d.listening
       /\ entities' = d.entities
       /\ UNCHANGED <<running, unresponsive, subscriber>>

\* --------------------------------------- commands on a filled session
\* A session whose connect() has returned with one open shade and one
\* scene.
InitCommands ==
    /\ InitRefresh
    /\ raw_covers = <<[id |-> 1, pos |-> 5]>>
    /\ raw_scenes = <<1>>

\* open_cover, toggle_cover and activate_scene issued on that shade and
\* that scene, in any number up to MaxTasks and in any interleaving.
NextCommands ==
    \E t \in Tasks :
        \/ \E op \in {"open", "toggle"} : Command(t, op, 1, NonePosition)
        \/ Command(t, "activate", 1, NonePosition)
        \/ LockWake(t)
        \/ CallReturn(t)

\* Every transport call returns or raises, and asyncio.Lock wakes the
\* first waiter once the lock is free.
CommandFairness ==
    \A t \in Tasks : WF_vars(LockWake(t)) /\ WF_vars(CallReturn(t))

SpecCommands == InitCommands /\ [][NextCommands]_vars /\ CommandFairness

\* ========================================================= setup wizard
\* Texts a user can put in the "ip" field.
IpTexts == {"10.0.0.5", "10.0.0.6", "10.0.0.256", "not-an-ip", ""}

\* The dot-separated decimal fields of a text; <<>> when a field is not a
\* decimal number.
DottedFields(text) ==
    CASE text = "10.0.0.5" -> <<10, 0, 0, 5>>
      [] text = "10.0.0.6" -> <<10, 0, 0, 6>>
      [] text = "10.0.0.256" -> <<10, 0, 0, 256>>
      [] OTHER -> <<>>

\* ipaddress.ip_address(text) raises ValueError unless the text is an IP
\* literal: four decimal fields, each at most 255.
IpAddressRaises(text) ==
    LET f == DottedFields(text)
    IN ~(Len(f) = 4 /\ \A i \in 1..4 : f[i] \in 0..255)

\* int(text) raises ValueError unless the text is a decimal number.
IntRaises(text) == text \notin {"42"}

\* Python values of the two types the registry lookups compare: equal only
\* when type and value are.
PyStr(text) == [type |-> "str", value |-> text]
PyInt(text) == [type |-> "int", value |-> text]

\* Addresses the scan can find, and what a scan returns: any of them in
\* any order.
DiscoverableAddresses == {"10.0.0.5", "10.0.0.6"}
DiscoveryResults ==
    InjSeqs(DiscoverableAddresses, Cardinality(DiscoverableAddresses))

\* How far the transport calls of _handle_creation get: all three return,
\* or query_firmware / Shades.get_resources / Scenes.get_resources raises.
CreationOutcomes == {"ok", "probe_raise", "shades_raise", "scenes_raise"}

\* A registry record.
DeviceRecord(identifier, address, name, model) ==
    [identifier |-> identifier, address |-> address, name |-> name,
     model |-> model]

\* Registries config.Devices.load() can find on disk.
LoadedRegistries ==
    {<<>>,
     <<DeviceRecord("ABC123", "10.0.0.6", "Hub1", "X")>>,
     <<DeviceRecord("42", "10.0.0.5", "Hub2", "Y"),
       DeviceRecord("ABC123", "10.0.0.6", "Hub1", "X")>>}

\* Fields of the PowerviewConfig dataclass, and the keywords
\* _handle_creation passes to its constructor.
PowerviewConfigFields == {"identifier", "address", "name", "model"}
CreationKeywords ==
    {"identifier", "address", "name", "model", "covers", "scenes"}

\* A dataclass constructor raises TypeError on a keyword that is no field.
ConstructRaises == ~(CreationKeywords \subseteq PowerviewConfigFields)

\* Devices.get(device_id): index of the first record whose identifier
\* equals device_id, 0 for None.
DevicesGet(list, device_id) ==
    IF \E i \in 1..Len(list) : PyStr(list[i].identifier) = device_id
    THEN CHOOSE i \in 1..Len(list) :
            /\ PyStr(list[i].identifier) = device_id
            /\ \A j \in 1..(i - 1) : PyStr(list[j].identifier) # device_id
    ELSE 0

\* Devices.update(config): the first record with the identifier takes the
\* address, name and model of config.
DevicesUpdate(list, cfg) ==
    LET i == DevicesGet(list, PyStr(cfg.identifier))
    IN IF i = 0 THEN list ELSE [list EXCEPT ![i] = cfg]

\* An update() that never finds the record.
UpdateRaises_noMatch(list, cfg) == FALSE

\* Devices.update(config) on a match goes on to "item.covers =
\* config.covers": PowerviewConfig has no such field, so it raises
\* AttributeError before store(); without a match it returns False.
UpdateRaises(list, cfg) == DevicesGet(list, PyStr(cfg.identifier)) # 0

\* An upsert that appends whether or not the identifier is known.
AddOrUpdate_append(list, cfg) == Append(list, cfg)

\* Devices.add_or_update(config): the registry it leaves.  update() changes
\* the matching record; the record is appended when update() returned
\* False.
AddOrUpdate(list, cfg) ==
    IF UpdateRaises(list, cfg)
    THEN DevicesUpdate(list, cfg)
    ELSE Append(list, cfg)

\* The handler invocations of Devices.add_or_update(config): the add
\* handler, once, after an append.
AddOrUpdateHandlers(list, cfg) ==
    IF UpdateRaises(list, cfg)
    THEN <<>>
    ELSE <<HandlerCall("added", cfg.identifier)>>

\* What a handler leaves behind: the step, the add flag, the registry, the
\* setup action it returns and the registry handlers it invoked.
Result(step, add, devs, resp) ==
    [step |-> step, add |-> add, devices |-> devs, response |-> resp,
     handlers |-> <<>>]

\* The result r of a handler that, before the rest, invoked the registry
\* handlers hs.
WithHandlers(hs, r) == [r EXCEPT !.handlers = hs \o @]

\* Devices.clear() invokes the remove handler with None.
ClearHandlers == <<HandlerCall("removed", "")>>

\* The address dropdown without the manual entry.
DropdownItems_noManual(found) == found

\* The address dropdown of _handle_discovery: the found addresses, then
\* "manual".
DropdownItems(found) == found \o <<"manual">>

\* _handle_discovery: a dropdown when the scan found something; else the
\* registry is cleared and the manual form returned.
HandleDiscovery(found, step, add, devs) ==
    IF Len(found) > 0
    THEN Result(step, add, devs,
                RequestUserInput("discovered", DropdownItems(found), <<>>))
    ELSE WithHandlers(ClearHandlers,
                      Result("DISCOVER", add, <<>>, user_input_manual))

\* The configuration-mode form: the configured devices (a dummy entry when
\* there is none) and the actions on them.
ConfigurationForm(devs) ==
    IF Len(devs) > 0
    THEN RequestUserInput("configuration",
                          [i \in 1..Len(devs) |-> devs[i].identifier],
                          <<"add", "update", "remove", "reset">>)
    ELSE RequestUserInput("configuration", <<"">>, <<"add">>)

\* _handle_driver_setup, entered with step INIT and the add flag off.
HandleDriverSetup(reconfigure, found, devs) ==
    IF reconfigure
    THEN Result("CONFIGURATION_MODE", FALSE, devs, ConfigurationForm(devs))
    ELSE WithHandlers(ClearHandlers,
                      HandleDiscovery(found, "DISCOVER", FALSE, <<>>))

\* int(msg.input_values["choice"]): the exception it raises, "" for none.
ChoiceRaises(choice) ==
    IF choice = Absent THEN "KeyError"
    ELSE IF IntRaises(choice) THEN "ValueError"
    ELSE ""

\* The inner handler of _handle_creation reporting like the outer one.
QueryFailureError_refused == "CONNECTION_REFUSED"

\* The error type _handle_creation returns when query_firmware or a
\* listing raises.
QueryFailureError == "NOT_FOUND"

\* Transport calls _handle_creation makes for an address.
CreationCalls(ip, outcome) ==
    IF ip = "" \/ IpAddressRaises(ip) THEN 0
    ELSE CASE outcome = "probe_raise" -> 1
           [] outcome = "shades_raise" -> 2
           [] OTHER -> 3

\* _handle_creation.
HandleCreation(ip, outcome, answering, step, add, devs) ==
    IF ip = "" THEN Result(step, add, devs, SetupError("OTHER"))
    ELSE IF IpAddressRaises(ip)
    THEN Result(step, add, devs, SetupError("NOT_FOUND"))
    ELSE IF outcome # "ok"
    THEN Result(step, add, devs, SetupError(QueryFailureError))
    ELSE IF ConstructRaises
    THEN Result(step, add, devs, SetupError("CONNECTION_REFUSED"))
    ELSE LET device == DeviceRecord(answering.serial, ip, answering.name,
                                    answering.model)
         IN WithHandlers(AddOrUpdateHandlers(devs, device),
                Result(step, add, AddOrUpdate(devs, device),
                       IF UpdateRaises(devs, device)
                       THEN SetupError("CONNECTION_REFUSED")
                       ELSE SetupComplete))

\* Devices.remove(device_id) for a record that get() found: the first
\* record equal to it leaves the list.
RemoveAt(list, i) ==
    [k \in 1..(Len(list) - 1) |-> IF k < i THEN list[k] ELSE list[k + 1]]

\* The record the choice of an "update" or "remove" names: its index, 0
\* when int() raises or Devices.get() returns None.
ChosenDevice(choice, devs) ==
    IF ChoiceRaises(choice) # "" THEN 0 ELSE DevicesGet(devs, PyInt(choice))

\* _handle_configuration_mode.
HandleConfigurationMode(action, choice, found, outcome, answering, step, add, devs) ==
    CASE action = "add" -> HandleDiscovery(found, "DISCOVER", TRUE, devs)
      [] action = "update" ->
           IF ChoiceRaises(choice) # ""
           THEN Result(step, add, devs, Raised(ChoiceRaises(choice)))
           ELSE IF ChosenDevice(choice, devs) = 0
           THEN Result(step, add, devs, Raised("AttributeError"))
           ELSE HandleCreation(devs[ChosenDevice(choice, devs)].address,
                               outcome, answering, step, add, devs)
      [] action = "remove" ->
           IF ChoiceRaises(choice) # ""
           THEN Result(step, add, devs, Raised(ChoiceRaises(choice)))
           ELSE IF ChosenDevice(choice, devs) = 0
           THEN Result(step, add, devs, SetupError("OTHER"))
           ELSE WithHandlers(
                    <<HandlerCall("removed",
                        devs[ChosenDevice(choice, devs)].identifier)>>,
                    Result(step, add,
                           RemoveAt(devs, ChosenDevice(choice, devs)),
                           SetupComplete))
      [] action = "reset" ->
           WithHandlers(ClearHandlers,
                        HandleDiscovery(found, "DISCOVER", add, <<>>))
      [] OTHER -> Result(step, add, devs, SetupError("OTHER"))

\* The conversations' view after a message of conversation c left the
\* wizard in the given step.
Conversed(c, step) == [last |-> c, left |-> [conv.left EXCEPT ![c] = step]]

\* The wizard's state after a handler returned r for request q, sent by
\* any of the conversations: _setup_step and _cfg_add_device are module
\* globals, the same for all of them.
Handled(q, r) ==
    /\ request' = q
    /\ setup_step' = r.step
    /\ cfg_add_device' = r.add
    /\ devices' = r.devices
    /\ response' = r.response
    /\ handler_calls' = r.handlers
    /\ \E c \in Conversations : conv' = Conversed(c, r.step)
    /\ UNCHANGED registry_call
    /\ Driven(r.handlers)
    /\ UNCHANGED sessionVars

\* A dispatch that hands every response with an "ip" value to
\* _handle_creation, whatever the step.
Dispatch_anyStep(step, action, ip) ==
    IF step = "CONFIGURATION_MODE" /\ action # Absent THEN "configuration"
    ELSE IF ip # Absent /\ ip # "manual" THEN "creation"
    ELSE IF step = "DISCOVER" /\ ip = "manual" THEN "manual"
    ELSE "none"

\* driver_setup_handler on a UserDataResponse: the handler its step and
\* input values select, "none" when no branch takes it.
Dispatch(step, action, ip) ==
    IF step = "CONFIGURATION_MODE" /\ action # Absent THEN "configuration"
    ELSE IF step = "DISCOVER" /\ ip # Absent /\ ip # "manual" THEN "creation"
    ELSE IF step = "DISCOVER" /\ ip = "manual" THEN "manual"
    ELSE "none"

\* driver_setup_handler on a DriverSetupRequest.
SetupStart ==
    \E reconfigure \in BOOLEAN, found \in DiscoveryResults :
        /\ reconfigure => found = <<>>
        /\ Handled(Request("start", reconfigure, Absent, Absent, Absent,
                           found, "none", NoHub),
                   HandleDriverSetup(reconfigure, found, devices))

\* driver_setup_handler on a UserDataResponse with an "action" value, in
\* step CONFIGURATION_MODE.
ConfigurationResponse ==
    \E action \in {"add", "update", "remove", "reset", "other"},
       choice \in {"ABC123", "42", "", Absent},
       found \in DiscoveryResults,
       outcome \in CreationOutcomes \cup {"none"},
       answering \in Hubs \cup {NoHub} :
        /\ Dispatch(setup_step, action, Absent) = "configuration"
        /\ action \notin {"add", "reset"} => found = <<>>
        /\ outcome = "none" <=>
              \/ action # "update"
              \/ ChosenDevice(choice, devices) = 0
              \/ CreationCalls(devices[ChosenDevice(choice, devices)].address,
                               outcome) = 0
        /\ answering = NoHub <=> outcome \in {"none", "probe_raise"}
        /\ Handled(Request("response", FALSE, action, choice, Absent,
                           found, outcome, answering),
                   HandleConfigurationMode(action, choice, found, outcome,
                                           answering, setup_step,
                                           cfg_add_device, devices))

\* driver_setup_handler on a UserDataResponse with an "ip" value other than
\* "manual", in step DISCOVER.
AddressResponse ==
    \E ip \in IpTexts, outcome \in CreationOutcomes \cup {"none"},
       answering \in Hubs \cup {NoHub} :
        /\ Dispatch(setup_step, Absent, ip) = "creation"
        /\ outcome = "none" <=> CreationCalls(ip, outcome) = 0
        /\ answering = NoHub <=> outcome \in {"none", "probe_raise"}
        /\ Handled(Request("response", FALSE, Absent, Absent, ip, <<>>,
                           outcome, answering),
                   HandleCreation(ip, outcome, answering, setup_step,
                                  cfg_add_device, devices))

\* driver_setup_handler on a UserDataResponse choosing "manual", in step
\* DISCOVER.
ManualResponse ==
    /\ Dispatch(setup_step, Absent, "manual") = "manual"
    /\ Handled(Request("response", FALSE, Absent, Absent, "manual", <<>>,
                       "none", NoHub),
               Result(setup_step, cfg_add_device, devices, user_input_manual))

\* driver_setup_handler on a UserDataResponse no branch takes: logged,
\* SetupError().
UnexpectedResponse ==
    \E action \in {"add", Absent}, ip \in {"10.0.0.5", "manual", Absent} :
        /\ Dispatch(setup_step, action, ip) = "none"
        /\ Handled(Request("response", FALSE, action, Absent, ip, <<>>,
                           "none", NoHub),
                   Result(setup_step, cfg_add_device, devices,
                          SetupError("OTHER")))

\* An abort that also clears the registry and the add flag.
AbortStep_clears ==
    /\ setup_step' = "INIT"
    /\ cfg_add_device' = FALSE
    /\ devices' = <<>>

\* What an AbortDriverSetup does to the wizard: _setup_step = INIT.
AbortStep ==
    /\ setup_step' = "INIT"
    /\ UNCHANGED <<cfg_add_device, devices>>

\* driver_setup_handler on an AbortDriverSetup.
Abort ==
    /\ request' = Request("abort", FALSE, Absent, Absent, Absent, <<>>,
                          "none", NoHub)
    /\ AbortStep
    /\ response' = SetupError("OTHER")
    /\ handler_calls' = <<>>
    /\ \E c \in Conversations : conv' = Conversed(c, setup_step')
    /\ UNCHANGED registry_call
    /\ UNCHANGED <<sessionVars, fleetVars>>

\* The wizard of a freshly started driver: the registry is what load()
\* found, the session is untouched.
InitSetup ==
    /\ SessionInit
    /\ setup_step = "INIT"
    /\ cfg_add_device = FALSE
    /\ devices \in LoadedRegistries
    /\ request = NoRequest
    /\ response = NoResponse
    /\ conv = NoConversation
    /\ registry_call = NoRegistryCall
    /\ handler_calls = <<>>
    /\ FleetIdle

\* A driver with a live session for each of two configured hubs.
InitFleet == InitSetup /\ Len(devices) = 2

SpecFleet == InitFleet /\ [][NextFleet]_vars /\ FleetFairness

\* ------------------------------- subscribing and unsubscribing entities
\* The entity ids the Remote can name in one message: some of one hub's.
EntityRequests ==
    UNION {SUBSET HubEntities(d) \ {{}} : d \in FleetIds}

\* The library, before it emits SUBSCRIBE_ENTITIES, puts the named
\* entities it finds among the available ones into the configured ones.
Subscribed(es, ids) ==
    [es EXCEPT !.configured = @ \cup (ids \cap es.available)]

\* The library, before it emits UNSUBSCRIBE_ENTITIES, takes the named
\* entities out of the configured ones.
Unsubscribed(es, ids) == [es EXCEPT !.configured = @ \ ids]

\* "while attempt := attempt + 1 < 4": the walrus binds the comparison, so
\* attempt becomes True (1) or False (0), and the loop goes on while it is
\* True.
LoopAttempt(attempt) == IF attempt + 1 < 4 THEN 1 ELSE 0

\* What SmartHub.connect() returns, whatever its probe did.
ConnectReturns(probe_failed) == TRUE

\* _register_available_entities_from_hub(device): an entity for every
\* shade in the cache of the session replaces the available one of that id.
RegisterAvailable(es, d, cached) ==
    [es EXCEPT !.available = @ \cup (IF cached THEN HubEntities(d) ELSE {})]

\* on_subscribe_entities(entity_ids), ids of hub d, up to its first await
\* or, when it awaits nothing, its end.  A device that is not in
\* _configured_devices is looked up in the registry: found, the handler
\* ends in the AttributeError of _add_configured_device; not found, it
\* returns.  A live session that is not connected enters the retry loop and
\* awaits connect(); the attributes the handler then pushes for each entity
\* are not part of the state.
SubscribeEntities(d, ids) ==
    /\ subscriber.pc # "connect"
    /\ ids \subseteq HubEntities(d)
    /\ entities' = Subscribed(entities, ids)
    /\ IF \A i \in 1..Len(configured_devices) : configured_devices[i] # d
       THEN /\ subscriber' =
                  [SubscriberIdle EXCEPT
                     !.pc = IF DevicesGet(devices, PyStr(d)) # 0
                            THEN "raised" ELSE "returned",
                     !.device = d]
            /\ UNCHANGED fleet
       ELSE IF ~fleet[d].hub /\ LoopAttempt(0) = 1
       THEN /\ subscriber' =
                  [SubscriberIdle EXCEPT !.pc = "connect", !.device = d,
                                         !.attempt = LoopAttempt(0),
                                         !.attempts = 1]
            /\ fleet' = FleetConnectStart(fleet, d)
       ELSE /\ subscriber' = [SubscriberIdle EXCEPT !.pc = "done",
                                                    !.device = d]
            /\ UNCHANGED fleet
    /\ UNCHANGED <<running, unresponsive, configured_devices, listening>>
    /\ UNCHANGED <<sessionVars, setupVars>>

\* The transport call the handler's connect() awaits returns or raises:
\* connect() goes on to its next await or returns.  On True the entities are
\* registered and the loop is left; on False the session is disconnected,
\* the handler sleeps, and the loop guard decides on another connect().
SubscribeConnectReturn(d) ==
    /\ subscriber.pc = "connect"
    /\ subscriber.device = d
    /\ fleet[d].step \in 1..Len(ConnectSteps)
    /\ \E o \in {"ok", "raise"} :
        LET cached == IF ConnectSteps[fleet[d].step] = "update_covers"
                      THEN o = "ok" \/ fleet[d].cached
                      ELSE fleet[d].cached
            failed == IF ConnectSteps[fleet[d].step] = "super_connect"
                         /\ o = "raise"
                      THEN 1 ELSE subscriber.failed
        IN IF fleet[d].step < Len(ConnectSteps)
           THEN /\ fleet' = [fleet EXCEPT ![d].step = @ + 1,
                                          ![d].cached = cached]
                /\ subscriber' = [subscriber EXCEPT !.failed = failed]
                /\ UNCHANGED entities
           ELSE IF ConnectReturns(failed = 1)
           THEN /\ fleet' = [fleet EXCEPT ![d].step = 0,
                                          ![d].cached = cached]
                /\ entities' = RegisterAvailable(entities, d, cached)
                /\ subscriber' = [subscriber EXCEPT !.pc = "done",
                                                    !.failed = failed]
           ELSE IF LoopAttempt(subscriber.attempt) = 1
           THEN /\ fleet' = [fleet EXCEPT ![d].step = 1,
                                          ![d].cached = cached]
                /\ subscriber' =
                       [subscriber EXCEPT
                          !.attempt = LoopAttempt(subscriber.attempt),
                          !.attempts = @ + 1,
                          !.disconnects = @ + 1,
                          !.failed = failed]
                /\ UNCHANGED entities
           ELSE /\ fleet' = [fleet EXCEPT ![d].step = 0, ![d].hub = FALSE,
                                          ![d].cached = cached]
                /\ subscriber' =
                       [subscriber EXCEPT
                          !.pc = "done",
                          !.attempt = LoopAttempt(subscriber.attempt),
                          !.disconnects = @ + 1,
                          !.failed = failed]
                /\ UNCHANGED entities
    /\ UNCHANGED <<running, unresponsive, configured_devices, listening>>
    /\ UNCHANGED <<sessionVars, setupVars>>

\* on_unsubscribe_entities(entity_ids): for every id,
\* "_configured_devices[device_id].events.remove_all_listeners()".
UnsubscribeEntities(ids) ==
    /\ ids \subseteq entities.configured
    /\ \A e \in ids :
          \E i \in 1..Len(configured_devices) : configured_devices[i] = e[2]
    /\ listening' = listening \ {e[2] : e \in ids}
    /\ entities' = Unsubscribed(entities, ids)
    /\ UNCHANGED <<fleet, running, unresponsive, configured_devices,
                   subscriber>>
    /\ UNCHANGED <<sessionVars, setupVars>>

NextSubscribe ==
    \/ \E d \in FleetIds, ids \in EntityRequests : SubscribeEntities(d, ids)
    \/ \E d \in FleetIds : SubscribeConnectReturn(d)
    \/ \E ids \in EntityRequests : UnsubscribeEntities(ids)
    \/ FleetDisconnectAll("disconnect")
    \/ FleetDisconnectReturn("disconnect")

SpecSubscribe == InitFleet /\ [][NextSubscribe]_vars

NextSetup ==
    \/ SetupStart
    \/ ConfigurationResponse
    \/ AddressResponse
    \/ ManualResponse
    \/ UnexpectedResponse
    \/ Abort

SpecSetup == InitSetup /\ [][NextSetup]_vars

\* ---------------------------------------------------------------------
\* The registry (config.Devices) called directly.

\* Records a caller can pass to add_or_update, and identifiers to remove.
RegistryConfigs ==
    {DeviceRecord(h.serial, a, h.name, m) :
        h \in Hubs, a \in DiscoverableAddresses, m \in {"X", "Y"}}
RegistryIds == {"ABC123", "42", "none"}

\* Devices.remove(device_id): the index of the record removed, 0 for none.
\* get() returns a copy of the first record with the identifier, and
\* list.remove() drops the first record equal to it.
RemovedIndex(list, device_id) == DevicesGet(list, PyStr(device_id))

\* The registry devs left by a registry call that invoked the handlers hs.
RegistryCalled(devs, hs) ==
    /\ devices' = devs
    /\ handler_calls' = hs
    /\ UNCHANGED <<setup_step, cfg_add_device, request, response, conv>>
    /\ Driven(hs)
    /\ UNCHANGED sessionVars

\* store() returns True, or False when the file cannot be written.
StoreResult(written) == IF written THEN "True" ELSE "False"

\* Devices.add_or_update(config): store() is called after an append, and
\* its result is not looked at.
RegistryAddOrUpdate ==
    \E cfg \in RegistryConfigs, written \in BOOLEAN :
        /\ UpdateRaises(devices, cfg) => written
        /\ registry_call' =
               IF UpdateRaises(devices, cfg)
               THEN RegistryCall("add_or_update", cfg, "AttributeError", "")
               ELSE RegistryCall("add_or_update", cfg, "",
                                 StoreResult(written))
        /\ RegistryCalled(AddOrUpdate(devices, cfg),
                          AddOrUpdateHandlers(devices, cfg))

\* Devices.update(config).
RegistryUpdate ==
    \E cfg \in RegistryConfigs :
        /\ registry_call' =
               RegistryCall("update", cfg,
                   IF UpdateRaises(devices, cfg) THEN "AttributeError" ELSE "",
                   "")
        /\ RegistryCalled(DevicesUpdate(devices, cfg), <<>>)

\* Devices.remove(device_id).
RegistryRemove ==
    \E id \in RegistryIds :
        LET i == RemovedIndex(devices, id)
        IN /\ registry_call' =
                  RegistryCall("remove", [NoConfig EXCEPT !.identifier = id], "",
                               "")
           /\ RegistryCalled(
                  IF i = 0 THEN devices ELSE RemoveAt(devices, i),
                  IF i = 0 THEN <<>>
                  ELSE <<HandlerCall("removed", devices[i].identifier)>>)

\* Devices.clear().
RegistryClear ==
    /\ registry_call' = RegistryCall("clear", NoConfig, "", "")
    /\ RegistryCalled(<<>>, ClearHandlers)

InitRegistry == InitSetup

NextRegistry ==
    \/ RegistryAddOrUpdate
    \/ RegistryUpdate
    \/ RegistryRemove
    \/ RegistryClear

SpecRegistry == InitRegistry /\ [][NextRegistry]_vars

\* ================================================================ claims

\* C1: whatever commands are issued concurrently and however they
\* interleave, at most one transport-mutating call is in flight, and a call
\* is in flight only while radio_operation_lock is held by the command that
\* issued it.
C1_OneCallUnderLock ==
    /\ Cardinality({t \in Tasks : task[t].pc = "call"}) <= 1
    /\ \A t \in Tasks : task[t].pc = "call" => lock = t

\* Two commands contend: one has its call in flight, the other waits.
C1_Witness ==
    \E t, u \in Tasks :
        /\ task[t].pc = "call"
        /\ task[u].pc = "waitlock"
        /\ lock = t

\* C2 (as claimed): once the firmware probe of a connect() has raised, that
\* connect() is over with a failure result, the session is not connected,
\* CONNECTING is the only event it emitted and it refreshes nothing.
C2_ProbeFailureFailsConnect ==
    \A t \in Tasks :
        (task[t].op = "connect" /\ task[t].outcome = "raise") =>
            /\ task[t].pc = "done"
            /\ task[t].ret = "False"
            /\ connectionState = "DISCONNECTED"
            /\ emitted[t] = <<Ev("CONNECTING", 0, "", AbsentPosition)>>

\* C3: in the events of one connect(), CONNECTED comes only after
\* CONNECTING, every UPDATE comes only after CONNECTED, and a connect() that
\* returned True did emit both CONNECTING and CONNECTED.
C3_ConnectEventOrder ==
    \A t \in Tasks :
        task[t].op = "connect" =>
            LET es == emitted[t]
                Before(kind, i) == \E j \in 1..(i - 1) : es[j].kind = kind
            IN /\ \A i \in 1..Len(es) :
                    /\ es[i].kind = "CONNECTED" => Before("CONNECTING", i)
                    /\ es[i].kind = "UPDATE" => Before("CONNECTED", i)
               /\ (task[t].pc = "done" /\ task[t].ret = "True") =>
                    \E i \in 1..Len(es) : es[i].kind = "CONNECTED"

\* A connect() has returned True after publishing a refreshed cover.
C3_Witness ==
    \E t \in Tasks :
        /\ task[t].op = "connect"
        /\ task[t].pc = "done"
        /\ task[t].ret = "True"
        /\ \E i \in 1..Len(emitted[t]) : emitted[t][i].kind = "UPDATE"

\* C4: a command whose id is not in the cached list (covers for the cover
\* commands, scenes for activate_scene) is over in the step that starts it,
\* having made no transport call, left the lock and its queue alone, emitted
\* nothing and changed neither the caches nor the connection state.
C4_MissTouchesNothing ==
    [][\A t \in Tasks :
         LET missed ==
               IF task'[t].op = "activate"
               THEN \A i \in 1..Len(scenes) : scenes[i] # task'[t].arg
               ELSE \A i \in 1..Len(covers) : covers[i].id # task'[t].arg
         IN (task[t].pc = "idle" /\ task'[t].op \in CommandOps /\ missed) =>
               /\ task'[t].pc = "done"
               /\ task'[t].ncalls = 0
               /\ task'[t].call = "none"
               /\ lock' = lock
               /\ waiters' = waiters
               /\ emitted'[t] = <<>>
               /\ covers' = covers
               /\ scenes' = scenes
               /\ hub' = hub]_vars

\* A cover command on an unknown id has finished while a cover is cached.
C4_Witness ==
    \E t \in Tasks :
        /\ task[t].op \in CoverOps
        /\ task[t].pc = "done"
        /\ task[t].ncalls = 0
        /\ covers # <<>>
        /\ \A i \in 1..Len(covers) : covers[i].id # task[t].arg

\* C5 (as claimed): a finished command that missed the cache has a result
\* that differs from None, the result of every command whose transport call
\* succeeded, and the entity handler does not report OK for it.
C5_NotFoundDistinguishable ==
    \A t \in Tasks :
        (task[t].op \in CommandOps /\ task[t].pc = "done"
            /\ task[t].ncalls = 0) =>
            /\ task[t].ret # "None"
            /\ task[t].status # "OK"

\* C6: when a cover refresh succeeds, the UPDATE events it emits are, cover
\* by cover of the new cache, the cover's id with its position p and the
\* state OPEN if p >= 5 and CLOSED otherwise.
C6_RefreshPublishesThreshold ==
    [][\A t \in Tasks :
         (/\ task[t].pc = "await"
          /\ ConnectSteps[task[t].step] = "update_covers"
          /\ task'[t] # task[t]
          /\ task'[t].outcome = "ok") =>
            LET new == SubSeq(emitted'[t], Len(emitted[t]) + 1,
                              Len(emitted'[t]))
                upd == SelectSeq(new, LAMBDA e : e.kind = "UPDATE")
            IN /\ Len(upd) = Len(covers')
               /\ \A i \in 1..Len(upd) :
                    /\ upd[i].id = covers'[i].id
                    /\ upd[i].position = covers'[i].position
                    /\ covers'[i].position \in 0..100
                    /\ upd[i].state \in {"OPEN", "CLOSED"}
                    /\ upd[i].state = "OPEN" <=> covers'[i].position >= 5]_vars

\* A refresh has published a cover at position 5 as OPEN.
C6_Witness ==
    \E t \in Tasks :
        /\ task[t].op = "connect"
        /\ \E i \in 1..Len(emitted[t]) :
             /\ emitted[t][i].kind = "UPDATE"
             /\ emitted[t][i].position = 5
             /\ emitted[t][i].state = "OPEN"

\* C7 (as claimed): every published attribute set with a state OPEN or
\* CLOSED and a position in 0..100 has state OPEN exactly when the position
\* is at least 5: the UPDATE events of every task and the initial attributes
\* of the entity of every cached cover.
C7_StateMatchesPosition ==
    LET Consistent(e) ==
          (e.state \in {"OPEN", "CLOSED"} /\ e.position \in 0..100) =>
              (e.state = "OPEN" <=> e.position >= 5)
    IN /\ \A t \in Tasks : \A i \in 1..Len(emitted[t]) :
            Consistent(emitted[t][i])
       /\ \A i \in 1..Len(covers) : Consistent(CoverInitAttributes(covers[i]))

\* C8: toggle_cover on a cached cover reads the cover's position once, when
\* it is called, and issues exactly one transport call: open when that
\* position is 0, close otherwise.
C8_ToggleOneCall ==
    [][\A t \in Tasks :
         task'[t].op = "toggle" =>
            /\ (task[t].pc = "idle" /\
                \E i \in 1..Len(covers) : covers[i].id = task'[t].arg) =>
                  /\ \E i \in 1..Len(covers) :
                        /\ covers[i].id = task'[t].arg
                        /\ task'[t].cur = covers[i].raw
                  /\ task'[t].pc \in {"call", "waitlock"}
            /\ task[t].op = "toggle" => task'[t].cur = task[t].cur
            /\ task'[t].ncalls <= 1
            /\ (task'[t].pc \in {"call", "done"}
                  /\ task'[t].cur # NonePosition) =>
                  /\ task'[t].ncalls = 1
                  /\ task'[t].call =
                        IF task'[t].cur = 0 THEN "open" ELSE "close"]_vars

\* A toggle of a cover at position 4 has finished with one close call.
C8_Witness ==
    \E t \in Tasks :
        /\ task[t].op = "toggle"
        /\ task[t].pc = "done"
        /\ task[t].cur = 4
        /\ task[t].ncalls = 1
        /\ task[t].call = "close"

\* C9 (as claimed): when the transport call of a cover command succeeds,
\* the command emits exactly one event, an UPDATE for that cover, and the
\* cached position of the cover becomes the position the command drives it
\* to (stop_cover leaves the position).
C9_SuccessPublishesAndCaches ==
    [][\A t \in Tasks :
         (/\ task[t].pc = "call"
          /\ task[t].op \in CoverOps
          /\ task'[t].pc = "done"
          /\ task'[t].outcome = "ok") =>
            /\ Len(emitted'[t]) = Len(emitted[t]) + 1
            /\ emitted'[t][Len(emitted'[t])].kind = "UPDATE"
            /\ emitted'[t][Len(emitted'[t])].id = task[t].arg
            /\ \A i \in 1..Len(covers') :
                 (covers'[i].id = task[t].arg /\ task[t].call # "stop") =>
                    covers'[i].position =
                       CASE task[t].call = "open" -> FullyOpen
                         [] task[t].call = "close" -> FullyClosed
                         [] task[t].call = "move" -> task[t].pos]_vars

\* C10: when the transport call of a command raises, the command ends
\* without an exception for its caller, emits nothing, and the connection
\* state and is_connected are what they were.
C10_FailureLeavesSession ==
    [][\A t \in Tasks :
         (/\ task[t].pc = "call"
          /\ task'[t].pc = "done"
          /\ task'[t].outcome = "raise") =>
            /\ hub' = hub
            /\ emitted'[t] = emitted[t]
            /\ task'[t].ret = "None"
            /\ task'[t].status # "BAD_REQUEST"
            /\ covers' = covers
            /\ scenes' = scenes]_vars

\* A cover command has ended on a transport failure while connected.
C10_Witness ==
    \E t \in Tasks :
        /\ task[t].op \in CommandOps
        /\ task[t].pc = "done"
        /\ task[t].outcome = "raise"
        /\ task[t].ncalls = 1
        /\ is_connected

\* C11 (as claimed): open_cover with an explicit position outside 0..100 on
\* a cached cover ends at once with a result that is not the success result,
\* without taking the lock and without a transport call.
C11_OutOfRangeRejected ==
    [][\A t \in Tasks :
         (/\ task[t].pc = "idle"
          /\ task'[t].op = "open_pos"
          /\ task'[t].pos \notin 0..100
          /\ \E i \in 1..Len(covers) : covers[i].id = task'[t].arg) =>
            /\ task'[t].pc = "done"
            /\ task'[t].ncalls = 0
            /\ task'[t].call = "none"
            /\ task'[t].status # "OK"
            /\ lock' = lock
            /\ waiters' = waiters]_vars

\* C12 (as claimed): connect() called while the session is CONNECTED returns
\* True at once: it emits no event, awaits no transport call and leaves
\* both caches as they are.
C12_ConnectWhenConnectedIsNoOp ==
    [][\A t \in Tasks :
         (/\ task[t].pc = "idle"
          /\ task'[t].op = "connect"
          /\ connectionState = "CONNECTED") =>
            /\ task'[t].pc = "done"
            /\ task'[t].ret = "True"
            /\ emitted'[t] = <<>>
            /\ covers' = covers
            /\ scenes' = scenes]_vars

\* C13: disconnect(), whatever the session is doing, drops the handle,
\* leaves the connection state DISCONNECTED, emits exactly DISCONNECTED and
\* returns None; and a connect() has a handle again by the time its
\* firmware probe is in flight, also when a disconnect() had dropped it.
C13_DisconnectThenRebuild ==
    [][\A t \in Tasks :
         /\ (task[t].pc = "idle" /\ task'[t].op = "disconnect") =>
               /\ hub' = FALSE
               /\ connectionState' = "DISCONNECTED"
               /\ task'[t].pc = "done"
               /\ task'[t].ret = "None"
               /\ emitted'[t] = <<Ev("DISCONNECTED", 0, "", AbsentPosition)>>
         /\ (task[t].pc = "idle" /\ task'[t].op = "connect") =>
               /\ hub' = TRUE
               /\ task'[t].pc = "await"
               /\ ConnectSteps[task'[t].step] = "super_connect"]_vars

\* A disconnect() has returned while a connect() was in flight.
C13_Witness ==
    \E t, u \in Tasks :
        /\ task[t].op = "disconnect"
        /\ task[t].pc = "done"
        /\ ~is_connected
        /\ emitted[t] = <<Ev("DISCONNECTED", 0, "", AbsentPosition)>>
        /\ task[u].op = "connect"
        /\ task[u].pc = "await"

\* C14 (as claimed): a cover command emits an UPDATE only while the
\* connection state is CONNECTED.
C14_UpdateOnlyWhenConnected ==
    [][\A t \in Tasks :
         (/\ task[t].op \in CoverOps
          /\ Len(emitted'[t]) > Len(emitted[t])
          /\ emitted'[t][Len(emitted'[t])].kind = "UPDATE") =>
            connectionState' = "CONNECTED"]_vars

\* C15 (as claimed): a connect() one of whose awaits was cancelled is over,
\* did not return True, and leaves the session DISCONNECTED.
C15_CancelledConnectFails ==
    \A t \in Tasks :
        (task[t].op = "connect" /\ task[t].outcome = "cancel") =>
            /\ task[t].pc = "done"
            /\ task[t].ret # "True"
            /\ connectionState = "DISCONNECTED"

\* C16: when a cover (resp. scene) listing returns, the cache is, entry by
\* entry and in the same order, the listing the transport returned: no
\* cached id is absent from the listing.
C16_RefreshReplacesCache ==
    [][\A t \in Tasks :
         (/\ task[t].pc = "await"
          /\ task'[t] # task[t]
          /\ task'[t].outcome = "ok") =>
            /\ ConnectSteps[task[t].step] = "update_covers" =>
                  /\ Len(covers') = Len(raw_covers')
                  /\ \A i \in 1..Len(covers') :
                        /\ covers'[i].id = raw_covers'[i].id
                        /\ covers'[i].position = raw_covers'[i].pos
                  /\ \A i \in 1..Len(covers) :
                        (\A j \in 1..Len(raw_covers') :
                            raw_covers'[j].id # covers[i].id) =>
                        \A k \in 1..Len(covers') : covers'[k].id # covers[i].id
            /\ ConnectSteps[task[t].step] = "update_scenes" =>
                  /\ Len(scenes') = Len(raw_scenes')
                  /\ \A i \in 1..Len(scenes') : scenes'[i] = raw_scenes'[i]]_vars

\* A cover refresh has just left the cache with cover 2 alone.
C16_Witness ==
    \E t \in Tasks :
        /\ task[t].op = "connect"
        /\ task[t].pc = "await"
        /\ ConnectSteps[task[t].step] = "update_scenes"
        /\ task[t].outcome = "ok"
        /\ Len(covers) = 1
        /\ covers[1].id = 2

\* C17: a setup start with reconfigure=false, whatever the step it arrives
\* in, leaves the registry empty and the step DISCOVER, and answers with
\* the manual form (no dropdown) when the scan found nothing, else with a
\* dropdown of the found addresses, in order, followed by "manual".
C17_StartDiscovers ==
    [][(request'.kind = "start" /\ ~request'.reconfigure) =>
          /\ devices' = <<>>
          /\ setup_step' = "DISCOVER"
          /\ response'.type = "RequestUserInput"
          /\ request'.found = <<>> =>
                /\ response'.form = "manual"
                /\ response'.items = <<>>
          /\ request'.found # <<>> =>
                /\ response'.form = "discovered"
                /\ Len(response'.items) = Len(request'.found) + 1
                /\ \A i \in 1..Len(request'.found) :
                      response'.items[i] = request'.found[i]
                /\ response'.items[Len(response'.items)] = "manual"]_vars

\* A start with reconfigure=false has answered with two found addresses.
C17_Witness ==
    /\ request.kind = "start"
    /\ ~request.reconfigure
    /\ Len(request.found) = 2
    /\ response.form = "discovered"
    /\ setup_step = "DISCOVER"

\* C18 (as claimed): in step DISCOVER, a response with a valid IP literal
\* whose transport calls all return is answered SetupComplete, and the
\* registry then holds a record with the hub's serial, name and model and
\* the supplied address.
C18_ValidAddressCompletes ==
    [][(/\ setup_step = "DISCOVER"
        /\ request'.kind = "response"
        /\ request'.ip \notin {Absent, "manual"}
        /\ request'.outcome = "ok") =>
          /\ response'.type = "SetupComplete"
          /\ \E i \in 1..Len(devices') :
                /\ devices'[i].identifier = request'.hub.serial
                /\ devices'[i].identifier # request'.ip
                /\ devices'[i].name = request'.hub.name
                /\ devices'[i].model = request'.hub.model
                /\ devices'[i].address = request'.ip]_vars

\* C19 (as claimed): in step DISCOVER, a response whose address is no IP
\* literal is answered with the manual form, without a transport call, and
\* leaves the registry and the step as they were.
C19_InvalidAddressReprompts ==
    [][(/\ setup_step = "DISCOVER"
        /\ request'.kind = "response"
        /\ request'.ip \in {"not-an-ip", "10.0.0.256"}) =>
          /\ response'.type = "RequestUserInput"
          /\ response'.form = "manual"
          /\ request'.outcome = "none"
          /\ devices' = devices
          /\ setup_step' = setup_step]_vars

\* C20: in step DISCOVER, when query_firmware or one of the two listings
\* raises for a valid IP literal, the answer is SetupError NOT_FOUND and the
\* registry is what it was.
C20_ProbeFailureNotFound ==
    [][(/\ setup_step = "DISCOVER"
        /\ request'.kind = "response"
        /\ request'.ip \notin {Absent, "manual"}
        /\ request'.outcome \in
              {"probe_raise", "shades_raise", "scenes_raise"}) =>
          /\ response'.type = "SetupError"
          /\ response'.code = "NOT_FOUND"
          /\ devices' = devices]_vars

\* A shade listing has failed for a valid address while the registry holds
\* a record.
C20_Witness ==
    /\ request.kind = "response"
    /\ request.ip = "10.0.0.5"
    /\ request.outcome = "shades_raise"
    /\ response.type = "SetupError"
    /\ response.code = "NOT_FOUND"
    /\ devices # <<>>
    /\ setup_step = "DISCOVER"

C22_TerminalResetsStep ==
    response.type \in {"SetupComplete", "SetupError"} => setup_step = "INIT"

\* C23: an abort sets the step to INIT and leaves the registry, the add
\* flag and the session as they were; it invokes no registry handler,
\* scans for nothing and makes no transport call.
C23_AbortOnlyResetsStep ==
    [][request'.kind = "abort" =>
          /\ setup_step' = "INIT"
          /\ devices' = devices
          /\ cfg_add_device' = cfg_add_device
          /\ handler_calls' = <<>>
          /\ request'.found = <<>>
          /\ request'.outcome = "none"
          /\ UNCHANGED <<sessionVars, fleetVars>>]_vars

\* An abort has been handled while the registry held records and the add
\* flag was set.
C23_Witness ==
    /\ request.kind = "abort"
    /\ setup_step = "INIT"
    /\ devices # <<>>
    /\ cfg_add_device
    /\ response = SetupError("OTHER")

\* C24 (as claimed): in step CONFIGURATION_MODE, "remove" with the
\* identifier of a record of the registry removes that record, keeps the
\* others and is answered SetupComplete.
C24_RemoveExisting ==
    [][(/\ setup_step = "CONFIGURATION_MODE"
        /\ request'.kind = "response"
        /\ request'.action = "remove"
        /\ \E i \in 1..Len(devices) :
              devices[i].identifier = request'.choice) =>
          /\ response'.type = "SetupComplete"
          /\ \E i \in 1..Len(devices) :
                /\ devices[i].identifier = request'.choice
                /\ devices' = RemoveAt(devices, i)]_vars

\* C25 (as claimed): in step CONFIGURATION_MODE, "update" with the
\* identifier of a record of the registry runs the validation on the
\* record's address and keeps the step; when the transport calls return,
\* the answer is SetupComplete.
C25_UpdateExisting ==
    [][(/\ setup_step = "CONFIGURATION_MODE"
        /\ request'.kind = "response"
        /\ request'.action = "update"
        /\ \E i \in 1..Len(devices) :
              devices[i].identifier = request'.choice) =>
          /\ response'.type # "raised"
          /\ request'.outcome # "none"
          /\ setup_step' = setup_step
          /\ request'.outcome = "ok" => response'.type = "SetupComplete"]_vars

\* C26 (as claimed): the step in which a conversation's next response is
\* interpreted is the step its own last message left, whatever the other
\* conversation sent since.
C26_ConversationsSeparate ==
    \A c \in Conversations :
        conv.left[c] # "INIT" => setup_step = conv.left[c]

\* C28 (as claimed): whatever the message and the step, the handler
\* returns a setup action; no exception leaves it.
C28_NeverRaises == response.type # "raised"

\* C29 (as claimed): every UPDATE event a cover refresh emits is for a
\* cover whose position (and with it its state) is not the one the cache
\* held for that cover before the refresh.
C29_RefreshEmitsOnlyChanges ==
    [][\A t \in Tasks :
         (/\ task[t].pc = "await"
          /\ ConnectSteps[task[t].step] = "update_covers"
          /\ task'[t] # task[t]
          /\ task'[t].outcome = "ok") =>
            \A k \in (Len(emitted[t]) + 1)..Len(emitted'[t]) :
                emitted'[t][k].kind = "UPDATE" =>
                    \A i \in 1..Len(covers) :
                        covers[i].id = emitted'[t][k].id =>
                            covers[i].raw # emitted'[t][k].position]_vars

\* C30 (as claimed): no command is inside its transport call while a
\* connect() of the session is waiting for its cover or scene listing.
C30_NoCommandDuringRefresh ==
    \A t \in Tasks, u \in Tasks :
        ~(/\ task[t].pc = "call"
          /\ task[u].op = "connect"
          /\ task[u].pc = "await"
          /\ ConnectSteps[task[u].step] \in {"update_covers", "update_scenes"})

C34_AddKeepsRegistry ==
    [][(/\ setup_step = "CONFIGURATION_MODE"
        /\ request'.kind = "response"
        /\ request'.action = "add") => devices' = devices]_vars

\* C35 (as claimed): the session is connected only if a connect() has been
\* made on it, and it is not connected when the probe of a connect() has
\* just failed.
C35_ConnectedOnlyAfterConnect ==
    /\ is_connected => \E t \in Tasks : task[t].op = "connect"
    /\ \A t \in Tasks :
          (/\ task[t].op = "connect"
           /\ task[t].pc = "await"
           /\ ConnectSteps[task[t].step] = "update_covers"
           /\ task[t].outcome = "raise") => ~is_connected

\* C37: when the cover (resp. scene) listing of a refresh raises, the
\* cover (resp. scene) cache and the last listing are what they were, the
\* refresh emits no UPDATE event, connect() goes on instead of raising, and
\* it returns True after the scene refresh.
C37_FailedListingKeepsCache ==
    [][\A t \in Tasks :
         (/\ task[t].pc = "await"
          /\ ConnectSteps[task[t].step] \in {"update_covers", "update_scenes"}
          /\ task'[t] # task[t]
          /\ task'[t].outcome = "raise") =>
            /\ ConnectSteps[task[t].step] = "update_covers" =>
                  /\ covers' = covers
                  /\ raw_covers' = raw_covers
                  /\ task'[t].pc = "await"
            /\ ConnectSteps[task[t].step] = "update_scenes" =>
                  /\ scenes' = scenes
                  /\ raw_scenes' = raw_scenes
                  /\ task'[t].pc = "done"
                  /\ task'[t].ret = "True"
            /\ task'[t].ret # "raised"
            /\ \A k \in (Len(emitted[t]) + 1)..Len(emitted'[t]) :
                  emitted'[t][k].kind # "UPDATE"]_vars

\* The cover listing of a refresh has just raised on a session that holds
\* covers from its earlier connect.
C37_Witness ==
    \E t \in Tasks :
        /\ task[t].op = "connect"
        /\ task[t].pc = "await"
        /\ ConnectSteps[task[t].step] = "update_scenes"
        /\ task[t].outcome = "raise"
        /\ covers # <<>>
        /\ scenes # <<>>

\* C38: a user response that the step does not match (no "action" value
\* in CONFIGURATION_MODE, no "ip" value in DISCOVER, any response in INIT)
\* is answered SetupError and changes neither the step, the add flag, the
\* registry nor the sessions; nothing is scanned for, no transport call is
\* made, no registry handler invoked.
C38_UnmatchedResponseIgnored ==
    [][(/\ request'.kind = "response"
        /\ ~(setup_step = "CONFIGURATION_MODE" /\ request'.action # Absent)
        /\ ~(setup_step = "DISCOVER" /\ request'.ip # Absent)) =>
          /\ response'.type = "SetupError"
          /\ setup_step' = setup_step
          /\ cfg_add_device' = cfg_add_device
          /\ devices' = devices
          /\ handler_calls' = <<>>
          /\ request'.found = <<>>
          /\ request'.outcome = "none"
          /\ UNCHANGED <<sessionVars, fleetVars>>]_vars

\* A response with an address has arrived in step CONFIGURATION_MODE while
\* the registry held records, and was answered SetupError.
C38_Witness ==
    /\ request.kind = "response"
    /\ request.ip = "10.0.0.5"
    /\ request.action = Absent
    /\ setup_step = "CONFIGURATION_MODE"
    /\ response = SetupError("OTHER")
    /\ devices # <<>>

\* C33: whatever add_or_update, update, remove and clear calls are made on
\* a registry loaded without duplicates, and whether or not store() can
\* write the file, no two records of the registry have the same
\* identifier.
C33_NoDuplicateIdentifiers ==
    \A i \in 1..Len(devices), j \in 1..Len(devices) :
        i # j => devices[i].identifier # devices[j].identifier

\* A record has been appended while store() could not write the file, and
\* the registry holds two records.
C33_Witness ==
    /\ registry_call.method = "add_or_update"
    /\ registry_call.stored = "False"
    /\ Len(devices) = 2

\* C36: a command that waits for the lock or for its transport call
\* eventually completes, and the lock is free whenever no command is
\* waiting for it or inside its transport call.
C36_CommandsComplete ==
    /\ \A t \in Tasks :
          (task[t].pc \in {"waitlock", "call"}) ~>
              (task[t].pc \in {"done", "finished"})
    /\ []((\A t \in Tasks : task[t].pc \notin {"waitlock", "call"}) =>
            (lock = 0 /\ waiters = <<>>))

\* The transport call of a command has just raised while another command
\* was queued for the lock: the lock is free for it.
C36_Witness ==
    \E t \in Tasks :
        /\ task[t].pc = "done"
        /\ task[t].outcome = "raise"
        /\ UsesLock(task[t].op)
        /\ lock = 0
        /\ waiters # <<>>


====
